---------------------------- MODULE Spec2Model ----------------------------
(***************************************************************************)
(* FarmBot sidecar-starter-pack: the command frames the library publishes  *)
(* to the broker, the status read that waits on the shared last_message    *)
(* slot, the REST write-then-reread operations and the token injection of  *)
(* the Farmbot facade.                                                     *)
(*                                                                         *)
(* Python values are tagged records: None is [t |-> "None"], a status tree *)
(* is [t |-> "tree", location_data |-> ...], so that values of different   *)
(* Python types can be compared.  A dict is a record; {} is EmptyArgs.     *)
(***************************************************************************)
EXTENDS Integers, Sequences, FiniteSets, TLC

VARIABLES
    published,      \* frames sent on the outbound command topic, in order
    last_message,   \* state.last_message, the slot shared by every BrokerConnect
    last_reply_to,  \* history: the request that the payload in last_message answers
    inbound,        \* status messages in flight towards the client
    awaiting,       \* read_status requests the device has not answered yet
    pc,             \* pc[c]: where caller c is ("idle", "listening", "listened")
    cur,            \* cur[c]: the record of caller c's current or last call
    calls,          \* number of calls started
    everOverlap,    \* history: two calls have been in progress at the same time
    everTimeout,    \* history: a listen ended by its timeout
    token,          \* the five token slots the facade writes
    granted,        \* history: the token the last successful get_token returned
    http,           \* HTTP requests issued, in order
    server          \* the REST server's resources, per endpoint

vars == <<published, last_message, last_reply_to, inbound, awaiting, pc, cur,
          calls, everOverlap, everTimeout, token, granted, http, server>>

brokerVars == <<published, last_message, last_reply_to, inbound, awaiting>>
raceVars == <<everOverlap, everTimeout>>
tokenVars == <<token, granted>>
apiVars == <<tokenVars, http, server>>

-----------------------------------------------------------------------------
(* Bounds of the model *)

MaxCalls == 2
MaxCoord == 1
NumCallers == 2

Callers == 1..NumCallers
Main == CHOOSE c \in Callers : \A d \in Callers : c <= d
Coords == 0..MaxCoord
Tolerances == -1..MaxCoord
Axes == {"all", "x", "y", "z"}
Speeds == {0, 1, 100, 101}
Durations == {0, 1000}

-----------------------------------------------------------------------------
(* Python values *)

None == [t |-> "None"]
Bool(b) == [t |-> "bool", v |-> b]
EmptyArgs == [k \in {} |-> TRUE]

Tree(x, y, z) ==
    [t |-> "tree",
     location_data |-> [position |-> [x |-> x, y |-> y, z |-> z]]]

\* The status trees the device reports: at the origin, or away from it along
\* one axis.
StatusTrees ==
    {Tree(0, 0, 0), Tree(MaxCoord, 0, 0), Tree(0, MaxCoord, 0),
     Tree(0, 0, MaxCoord)}

-----------------------------------------------------------------------------
(* BrokerConnect *)

wrap_message(message, priority) ==
    [kind |-> "rpc_request",
     args |-> [label |-> "", priority |-> priority],
     body |-> <<message>>]

RPC_REQUEST ==
    [kind |-> "rpc_request", args |-> [label |-> "", priority |-> 600]]

publish(message) == published' = Append(published, message)

-----------------------------------------------------------------------------
(* The record of a call *)

CanCall(c) == pc[c] = "idle" /\ calls < MaxCalls

\* op, args: the call; req: its number; pub0, lm0, rt0, http0, tok0: the
\* length of published, last_message, last_reply_to, the length of http and
\* the token slots when it started; status: "running", "returned" or
\* "raised"; ret: the value returned (or the exception); out: what it
\* printed; listens: how often it called listen; woke: the request whose
\* response ended its listen (0: none) and heard: that response's payload;
\* reply_to: the request that the returned payload answers; position: what
\* get_xyz returned to it; srv0: the server's resources when it started.
Call(op, args, status, ret, out, listens) ==
    [op |-> op, args |-> args, req |-> calls + 1,
     pub0 |-> Len(published), lm0 |-> last_message, rt0 |-> last_reply_to,
     http0 |-> Len(http), tok0 |-> token,
     status |-> status, ret |-> ret, out |-> out, listens |-> listens,
     woke |-> 0, heard |-> None, reply_to |-> 0, position |-> None,
     srv0 |-> server]

Returns(c, op, args, ret, out) ==
    /\ cur' = [cur EXCEPT ![c] = Call(op, args, "returned", ret, out, 0)]
    /\ calls' = calls + 1
    /\ UNCHANGED pc

Error(name, at) == [t |-> name, at |-> at]

\* The call ends with exception `error`, raised by its at-th request or step.
Raises(c, op, args, error) ==
    /\ cur' = [cur EXCEPT ![c] = Call(op, args, "raised", error, <<>>, 0)]
    /\ calls' = calls + 1
    /\ UNCHANGED pc

-----------------------------------------------------------------------------
(* functions/basic_commands.py *)

wait_message(duration) ==
    [kind |-> "wait", args |-> [milliseconds |-> duration]]

wait(c) ==
    /\ CanCall(c)
    /\ \E duration \in Durations :
          /\ publish(wait_message(duration))
          /\ Returns(c, "wait", [duration |-> duration], None, <<>>)
    /\ UNCHANGED <<last_message, last_reply_to, inbound, awaiting, raceVars, apiVars>>

stop_message == [kind |-> "emergency_lock", args |-> EmptyArgs]

e_stop_low(c) ==
    /\ CanCall(c)
    /\ publish(wrap_message(stop_message, 600))
    /\ Returns(c, "e_stop", EmptyArgs, None, <<>>)
    /\ UNCHANGED <<last_message, last_reply_to, inbound, awaiting, raceVars, apiVars>>

e_stop(c) ==
    /\ CanCall(c)
    /\ publish(wrap_message(stop_message, 9000))
    /\ Returns(c, "e_stop", EmptyArgs, None, <<>>)
    /\ UNCHANGED <<last_message, last_reply_to, inbound, awaiting, raceVars, apiVars>>

unlock_message == [kind |-> "emergency_unlock", args |-> EmptyArgs]

unlock(c) ==
    /\ CanCall(c)
    /\ publish(wrap_message(unlock_message, 9000))
    /\ Returns(c, "unlock", EmptyArgs, None, <<>>)
    /\ UNCHANGED <<last_message, last_reply_to, inbound, awaiting, raceVars, apiVars>>

reboot_message == [kind |-> "reboot", args |-> [package |-> "farmbot_os"]]

reboot_unsent(c) ==
    /\ CanCall(c)
    /\ Returns(c, "reboot", EmptyArgs, None, <<>>)
    /\ UNCHANGED <<brokerVars, raceVars, apiVars>>

reboot(c) ==
    /\ CanCall(c)
    /\ publish(reboot_message)
    /\ Returns(c, "reboot", EmptyArgs, None, <<>>)
    /\ UNCHANGED <<last_message, last_reply_to, inbound, awaiting, raceVars, apiVars>>

shutdown_message == [kind |-> "power_off", args |-> EmptyArgs]

shutdown(c) ==
    /\ CanCall(c)
    /\ publish(shutdown_message)
    /\ Returns(c, "shutdown", EmptyArgs, None, <<>>)
    /\ UNCHANGED <<last_message, last_reply_to, inbound, awaiting, raceVars, apiVars>>

-----------------------------------------------------------------------------
(* functions/movements.py: the fire-and-forget commands *)

axis_overwrite(axis, value) ==
    [kind |-> "axis_overwrite",
     args |-> [axis |-> axis,
               axis_operand |-> [kind |-> "numeric",
                                 args |-> [number |-> value]]]]

move_message_yx(x, y, z) ==
    [kind |-> "rpc_request",
     args |-> [label |-> "", priority |-> 600],
     body |-> << [kind |-> "move",
                  args |-> EmptyArgs,
                  body |-> << axis_overwrite("x", y),
                              axis_overwrite("y", x),
                              axis_overwrite("z", z) >>] >>]

move_message(x, y, z) ==
    [kind |-> "rpc_request",
     args |-> [label |-> "", priority |-> 600],
     body |-> << [kind |-> "move",
                  args |-> EmptyArgs,
                  body |-> << axis_overwrite("x", x),
                              axis_overwrite("y", y),
                              axis_overwrite("z", z) >>] >>]

move(c) ==
    /\ CanCall(c)
    /\ \E x \in Coords, y \in Coords, z \in Coords :
          /\ publish(move_message(x, y, z))
          /\ Returns(c, "move", [x |-> x, y |-> y, z |-> z], None, <<>>)
    /\ UNCHANGED <<last_message, last_reply_to, inbound, awaiting, raceVars, apiVars>>

set_home_message_pasted(axis) ==
    [kind |-> "rpc_request",
     args |-> [label |-> "", priority |-> 600],
     body |-> << [kind |-> "find_home", args |-> [axis |-> axis]] >>]

set_home_message(axis) ==
    [kind |-> "rpc_request",
     args |-> [label |-> "", priority |-> 600],
     body |-> << [kind |-> "zero", args |-> [axis |-> axis]] >>]

set_home(c) ==
    /\ CanCall(c)
    /\ \E axis \in Axes :
          /\ publish(set_home_message(axis))
          /\ Returns(c, "set_home", [axis |-> axis], None, <<>>)
    /\ UNCHANGED <<last_message, last_reply_to, inbound, awaiting, raceVars, apiVars>>

find_home_message(axis, speed) ==
    [kind |-> "rpc_request",
     args |-> [label |-> "", priority |-> 600],
     body |-> << [kind |-> "find_home",
                  args |-> [axis |-> axis, speed |-> speed]] >>]

speed_error == [text |-> "ERROR: Speed constrained to 1-100."]

speed_rejected_exclusive(speed) == speed >= 100 \/ speed <= 1

speed_rejected(speed) == speed > 100 \/ speed < 1

find_home(c) ==
    /\ CanCall(c)
    /\ \E axis \in Axes, speed \in Speeds :
          IF speed_rejected(speed)
          THEN /\ Returns(c, "find_home", [axis |-> axis, speed |-> speed],
                          None, <<speed_error>>)
               /\ UNCHANGED published
          ELSE /\ publish(find_home_message(axis, speed))
               /\ Returns(c, "find_home", [axis |-> axis, speed |-> speed],
                          None, <<>>)
    /\ UNCHANGED <<last_message, last_reply_to, inbound, awaiting, raceVars, apiVars>>

axis_length_message(axis) ==
    [k \in DOMAIN RPC_REQUEST \cup {"body"} |->
        IF k = "body"
        THEN << [kind |-> "calibrate", args |-> [axis |-> axis]] >>
        ELSE RPC_REQUEST[k]]

axis_length(c) ==
    /\ CanCall(c)
    /\ \E axis \in Axes :
          /\ publish(axis_length_message(axis))
          /\ Returns(c, "axis_length", [axis |-> axis], None, <<>>)
    /\ UNCHANGED <<last_message, last_reply_to, inbound, awaiting, raceVars, apiVars>>

-----------------------------------------------------------------------------
(* Authentication.request and the REST server behind it.  database_id 0     *)
(* stands for database_id=None (the URL of the whole collection).           *)

Endpoints == {"peripherals", "curves"}
Payloads == {[mode |-> 1], [label |-> "pump"]}
Ids == 0..MaxCalls
not_found == [error |-> "not found"]

Request(method, endpoint, database_id, payload) ==
    [method |-> method, endpoint |-> endpoint, id |-> database_id,
     payload |-> payload]

Exists(srv, endpoint, database_id) == database_id \in 1..Len(srv[endpoint])

Merge(old, new) ==
    [k \in DOMAIN old \cup DOMAIN new |->
        IF k \in DOMAIN new THEN new[k] ELSE old[k]]

\* The server's resources after it has served a request.
Served(srv, req) ==
    CASE req.method = "PATCH" /\ Exists(srv, req.endpoint, req.id) ->
            [srv EXCEPT ![req.endpoint][req.id] = Merge(@, req.payload)]
      [] req.method = "POST" /\ req.id = 0 ->
            [srv EXCEPT ![req.endpoint] =
                Append(@, Merge([id |-> Len(@) + 1], req.payload))]
      [] OTHER -> srv

\* The JSON body the server answers a request with, given its resources
\* after the request.
Body(srv, req) ==
    CASE req.id = 0 /\ req.method \in {"GET", "POST"} ->
            [items |-> srv[req.endpoint]]
      [] Exists(srv, req.endpoint, req.id) /\ req.method \in {"GET", "PATCH"} ->
            srv[req.endpoint][req.id]
      [] OTHER -> not_found

-----------------------------------------------------------------------------
(* functions/information.py *)

get_info(c) ==
    /\ CanCall(c)
    /\ \E endpoint \in Endpoints, database_id \in Ids, ok \in BOOLEAN :
          LET get == Request("GET", endpoint, database_id, None)
              args == [endpoint |-> endpoint, database_id |-> database_id]
          IN  /\ http' = Append(http, get)
              /\ IF ok
                 THEN Returns(c, "get_info", args, Body(server, get), <<>>)
                 ELSE Raises(c, "get_info", args, Error("HTTPError", 1))
    /\ UNCHANGED <<brokerVars, raceVars, tokenVars, server>>

write_then_trust(write, get, ok_write, ok_get) ==
    IF ~ok_write
    THEN [reqs |-> <<write>>, srv |-> server, status |-> "raised",
          ret |-> Error("HTTPError", 1)]
    ELSE [reqs |-> <<write>>, srv |-> Served(server, write),
          status |-> "returned", ret |-> write.payload]

\* What a write (PATCH or POST) followed by get_info does: requests issued,
\* resources afterwards, and how the call ends.
write_then_get(write, get, ok_write, ok_get) ==
    IF ~ok_write
    THEN [reqs |-> <<write>>, srv |-> server, status |-> "raised",
          ret |-> Error("HTTPError", 1)]
    ELSE IF ~ok_get
    THEN [reqs |-> <<write, get>>, srv |-> Served(server, write),
          status |-> "raised", ret |-> Error("HTTPError", 2)]
    ELSE [reqs |-> <<write, get>>, srv |-> Served(server, write),
          status |-> "returned", ret |-> Body(Served(server, write), get)]

Finish(c, op, args, r) ==
    /\ http' = http \o r.reqs
    /\ server' = r.srv
    /\ cur' = [cur EXCEPT ![c] = Call(op, args, r.status, r.ret, <<>>, 0)]
    /\ calls' = calls + 1
    /\ UNCHANGED pc

edit_info(c) ==
    /\ CanCall(c)
    /\ \E endpoint \in Endpoints, new_data \in Payloads, database_id \in Ids,
          ok_write \in BOOLEAN, ok_get \in BOOLEAN :
          Finish(c, "edit_info",
                 [endpoint |-> endpoint, new_data |-> new_data,
                  database_id |-> database_id],
                 write_then_get(Request("PATCH", endpoint, database_id, new_data),
                                Request("GET", endpoint, database_id, None),
                                ok_write, ok_get))
    /\ UNCHANGED <<brokerVars, raceVars, tokenVars>>

add_info(c) ==
    /\ CanCall(c)
    /\ \E endpoint \in Endpoints, new_data \in Payloads,
          ok_write \in BOOLEAN, ok_get \in BOOLEAN :
          Finish(c, "add_info",
                 [endpoint |-> endpoint, new_data |-> new_data],
                 write_then_get(Request("POST", endpoint, 0, new_data),
                                Request("GET", endpoint, 0, None),
                                ok_write, ok_get))
    /\ UNCHANGED <<brokerVars, raceVars, tokenVars>>

soil_height_message ==
    [kind |-> "execute_script", args |-> [label |-> "Measure Soil Height"]]

soil_height(c) ==
    /\ CanCall(c)
    /\ publish(soil_height_message)
    /\ Returns(c, "soil_height", EmptyArgs, None, <<>>)
    /\ UNCHANGED <<last_message, last_reply_to, inbound, awaiting, raceVars, apiVars>>

sensor_message(mode, peripheral_id) ==
    [kind |-> "read_pin",
     args |-> [pin_mode |-> mode,
               label |-> "---",
               pin_number |-> [kind |-> "named_pin",
                               args |-> [pin_type |-> "Peripheral",
                                         pin_id |-> peripheral_id]]]]

read_sensor(c) ==
    /\ CanCall(c)
    /\ \E peripheral_id \in Ids \ {0}, ok \in BOOLEAN :
          LET get == Request("GET", "peripherals", peripheral_id, None)
              peripheral_str == Body(server, get)
              args == [peripheral_id |-> peripheral_id]
          IN  /\ http' = Append(http, get)
              /\ IF ~ok
                 THEN /\ Raises(c, "read_sensor", args, Error("HTTPError", 1))
                      /\ UNCHANGED published
                 ELSE IF "mode" \notin DOMAIN peripheral_str
                 THEN /\ Raises(c, "read_sensor", args, Error("KeyError", 2))
                      /\ UNCHANGED published
                 ELSE /\ publish(sensor_message(peripheral_str.mode, peripheral_id))
                      /\ Returns(c, "read_sensor", args, None, <<>>)
    /\ UNCHANGED <<last_message, last_reply_to, inbound, awaiting, raceVars,
                   tokenVars, server>>

-----------------------------------------------------------------------------
(* read_status and the operations built on it (get_xyz, check_position):    *)
(* publish, then BrokerConnect.listen, then read the shared slot.           *)

status_message == [kind |-> "read_status", args |-> EmptyArgs]

\* Lines 117-122: build the envelope and publish it.
status_request(c, op, args) ==
    /\ CanCall(c)
    /\ publish(wrap_message(status_message, 600))
    /\ awaiting' = awaiting \cup {calls + 1}
    /\ pc' = [pc EXCEPT ![c] = "published"]
    /\ cur' = [cur EXCEPT ![c] = Call(op, args, "running", None, <<>>, 0)]
    /\ calls' = calls + 1
    /\ everOverlap' = (everOverlap \/ \E d \in Callers \ {c} : pc[d] # "idle")
    /\ UNCHANGED <<last_message, last_reply_to, inbound, everTimeout, apiVars>>

read_status(c) == status_request(c, "read_status", EmptyArgs)

get_xyz(c) == status_request(c, "get_xyz", EmptyArgs)

check_position(c) ==
    \E user_x \in Coords, user_y \in Coords, user_z \in Coords,
       tolerance \in Tolerances :
        status_request(c, "check_position",
                       [user_x |-> user_x, user_y |-> user_y,
                        user_z |-> user_z, tolerance |-> tolerance])

\* Line 124: the caller enters listen(15, "status").
listen(c) ==
    /\ pc[c] = "published"
    /\ pc' = [pc EXCEPT ![c] = "listening"]
    /\ cur' = [cur EXCEPT ![c].listens = @ + 1]
    /\ UNCHANGED <<brokerVars, calls, raceVars, apiVars>>

\* The device answers a read_status request with its status tree.
device_status(trees) ==
    \E r \in awaiting, tree \in trees :
        /\ awaiting' = awaiting \ {r}
        /\ inbound' = inbound \cup {[reply_to |-> r, payload |-> tree]}
        /\ UNCHANGED <<published, last_message, last_reply_to, pc, cur, calls,
                       raceVars, apiVars>>

Listening == {c \in Callers : pc[c] = "listening"}

\* A status message arrives while a listen is in progress: its payload goes
\* into last_message and every listen in progress ends.
on_message ==
    \E m \in inbound :
        /\ Listening # {}
        /\ inbound' = inbound \ {m}
        /\ last_message' = m.payload
        /\ last_reply_to' = m.reply_to
        /\ pc' = [c \in Callers |->
                    IF c \in Listening THEN "listened" ELSE pc[c]]
        /\ cur' = [c \in Callers |->
                    IF c \in Listening
                    THEN [cur[c] EXCEPT !.woke = m.reply_to,
                                        !.heard = m.payload]
                    ELSE cur[c]]
        /\ UNCHANGED <<published, awaiting, calls, raceVars, apiVars>>

\* A status message arrives while nobody listens: it is not kept.
unheard ==
    \E m \in inbound :
        /\ Listening = {}
        /\ inbound' = inbound \ {m}
        /\ UNCHANGED <<published, last_message, last_reply_to, awaiting, pc,
                       cur, calls, raceVars, apiVars>>

\* The listen's deadline passes with no matching message.
listen_timeout(c) ==
    /\ pc[c] = "listening"
    /\ pc' = [pc EXCEPT ![c] = "listened"]
    /\ everTimeout' = TRUE
    /\ UNCHANGED <<brokerVars, cur, calls, everOverlap, apiVars>>

\* Line 126: status_tree = self.broker.state.last_message
status_tree_before(c) == [tree |-> cur[c].lm0, reply_to |-> cur[c].rt0]

status_tree_none(c) == [tree |-> None, reply_to |-> 0]

status_tree(c) == [tree |-> last_message, reply_to |-> last_reply_to]

\* Lines 124-128 of movements.py: the position in the tree, as a tuple.
xyz(tree_data) ==
    << tree_data["location_data"]["position"]["x"],
       tree_data["location_data"]["position"]["y"],
       tree_data["location_data"]["position"]["z"] >>

within_exclusive(user_value, actual_value, tolerance) ==
    /\ actual_value - tolerance < user_value
    /\ user_value < actual_value + tolerance

within(user_value, actual_value, tolerance) ==
    /\ actual_value - tolerance <= user_value
    /\ user_value <= actual_value + tolerance

RECURSIVE all_within(_, _, _, _)
\* The loop of check_position over zip(user_values, actual_vals), from pair i.
all_within(user_values, actual_vals, tolerance, i) ==
    IF i > Len(user_values) \/ i > Len(actual_vals)
    THEN TRUE
    ELSE IF ~within(user_values[i], actual_vals[i], tolerance)
    THEN FALSE
    ELSE all_within(user_values, actual_vals, tolerance, i + 1)

position_report(ok, position) ==
    [text |-> IF ok THEN "Farmbot is at position"
                    ELSE "Farmbot is NOT at position",
     position |-> position]

\* What the call returns once listen is over, by operation.
status_result(c) ==
    LET read == status_tree(c)
        call == [cur[c] EXCEPT !.reply_to = read.reply_to]
    IN  IF call.op = "read_status"
        THEN [call EXCEPT !.status = "returned", !.ret = read.tree]
        ELSE IF "location_data" \notin DOMAIN read.tree
        THEN [call EXCEPT !.status = "raised", !.ret = Error("TypeError", 1)]
        ELSE IF call.op = "get_xyz"
        THEN [call EXCEPT !.status = "returned",
                          !.position = xyz(read.tree),
                          !.ret = [t |-> "tuple", v |-> xyz(read.tree)]]
        ELSE LET a == call.args
                 ok == all_within(<<a.user_x, a.user_y, a.user_z>>,
                                  xyz(read.tree), a.tolerance, 1)
             IN  [call EXCEPT !.status = "returned",
                              !.position = xyz(read.tree),
                              !.ret = Bool(ok),
                              !.out = <<position_report(ok, xyz(read.tree))>>]

status_return(c) ==
    /\ pc[c] = "listened"
    /\ cur' = [cur EXCEPT ![c] = status_result(c)]
    /\ pc' = [pc EXCEPT ![c] = "idle"]
    /\ UNCHANGED <<brokerVars, calls, raceVars, apiVars>>

-----------------------------------------------------------------------------
(* main.py: the facade's token slots *)

Slots == {"token", "api.token", "api.api_connect.token",
          "broker.broker_connect.token", "broker.api.api_connect.token"}
Tokens == {[t |-> "token", v |-> "A"], [t |-> "token", v |-> "B"]}
Passwords == {"right", "wrong"}

set_tokens_api_only(token_data) ==
    [token EXCEPT !["token"] = token_data,
                  !["api.token"] = token_data,
                  !["api.api_connect.token"] = token_data]

set_tokens(token_data) ==
    [token EXCEPT !["token"] = token_data,
                  !["api.token"] = token_data,
                  !["api.api_connect.token"] = token_data,
                  !["broker.broker_connect.token"] = token_data,
                  !["broker.api.api_connect.token"] = token_data]

\* ApiFunctions.get_token: the credential exchange succeeds only with the
\* right password and a working network; otherwise its error propagates.
exchange_ok(password, network_ok) == password = "right" /\ network_ok

get_token(c) ==
    /\ CanCall(c)
    /\ \E password \in Passwords, token_data \in Tokens, ok \in BOOLEAN :
          LET args == [email |-> "user@example.com", password |-> password]
          IN  IF exchange_ok(password, ok)
              THEN /\ token' = set_tokens(token_data)
                   /\ granted' = token_data
                   /\ Returns(c, "get_token", args, token_data, <<>>)
              ELSE /\ UNCHANGED tokenVars
                   /\ Raises(c, "get_token", args, Error("HTTPError", 1))
    /\ UNCHANGED <<brokerVars, raceVars, http, server>>

-----------------------------------------------------------------------------
(* The state after construction *)

NoCall ==
    [op |-> "none", args |-> EmptyArgs, req |-> 0, pub0 |-> 0, lm0 |-> None,
     rt0 |-> 0, http0 |-> 0, tok0 |-> [s \in Slots |-> None],
     status |-> "none", ret |-> None, out |-> <<>>, listens |-> 0,
     woke |-> 0, heard |-> None, reply_to |-> 0, position |-> None,
     srv0 |-> [peripherals |-> <<>>, curves |-> <<>>]]

Init ==
    /\ published = <<>>
    /\ last_message = None
    /\ last_reply_to = 0
    /\ inbound = {}
    /\ awaiting = {}
    /\ pc = [c \in Callers |-> "idle"]
    /\ cur = [c \in Callers |-> NoCall]
    /\ calls = 0
    /\ everOverlap = FALSE
    /\ everTimeout = FALSE
    /\ token = [s \in Slots |-> None]
    /\ granted = None
    /\ http = <<>>
    /\ server = [peripherals |-> << [id |-> 1, mode |-> 0] >>, curves |-> <<>>]

-----------------------------------------------------------------------------
(* Spec: one caller issues the broker commands one after another. *)

Next ==
    \/ wait(Main)
    \/ e_stop(Main)
    \/ unlock(Main)
    \/ reboot(Main)
    \/ shutdown(Main)
    \/ soil_height(Main)
    \/ read_sensor(Main)
    \/ move(Main)
    \/ set_home(Main)
    \/ find_home(Main)
    \/ axis_length(Main)
    \/ read_status(Main)
    \/ listen(Main)
    \/ listen_timeout(Main)
    \/ status_return(Main)
    \/ device_status(StatusTrees)
    \/ on_message
    \/ unheard

Spec == Init /\ [][Next]_vars

(* SpecPos: one caller queries and checks the position. *)

NextPos ==
    \/ get_xyz(Main)
    \/ check_position(Main)
    \/ listen(Main)
    \/ listen_timeout(Main)
    \/ status_return(Main)
    \/ device_status(StatusTrees)
    \/ on_message
    \/ unheard

SpecPos == Init /\ [][NextPos]_vars

(* SpecApi: one caller authenticates and uses the REST operations. *)

NextApi ==
    \/ get_token(Main)
    \/ get_info(Main)
    \/ edit_info(Main)
    \/ add_info(Main)

SpecApi == Init /\ [][NextApi]_vars

(* SpecRace: several callers run read_status against the same state. *)

\* Two different payloads are enough to tell the responses apart.
RaceTrees == {Tree(0, 0, 0), Tree(MaxCoord, 0, 0)}

NextRace ==
    \/ \E c \in Callers : read_status(c)
    \/ \E c \in Callers : listen(c)
    \/ \E c \in Callers : listen_timeout(c)
    \/ \E c \in Callers : status_return(c)
    \/ device_status(RaceTrees)
    \/ on_message
    \/ unheard

SpecRace == Init /\ [][NextRace]_vars


-----------------------------------------------------------------------------
(* Properties.  last is the single caller's current or last call; Sent(c)  *)
(* and Asked(c) are the frames published and the HTTP requests issued      *)
(* since caller c's call started.                                          *)

last == cur[Main]
Sent(c) == SubSeq(published, cur[c].pub0 + 1, Len(published))
Asked(c) == SubSeq(http, cur[c].http0 + 1, Len(http))
Over(call) == call.status \in {"returned", "raised"}
Abs(n) == IF n < 0 THEN -n ELSE n
IsEnvelope(f) == f.kind = "rpc_request"

\* C1: find_home with 1 <= speed <= 100 publishes exactly one frame, an
\* rpc_request whose single body frame is a find_home carrying that axis and
\* that speed; with speed < 1 or speed > 100 it publishes nothing, prints an
\* error message and leaves the broker state as it was.
C1_FindHomeValidatesSpeed ==
    last.op = "find_home" =>
        IF 1 <= last.args.speed /\ last.args.speed <= 100
        THEN /\ last.status = "returned"
             /\ Len(Sent(Main)) = 1
             /\ Sent(Main)[1].kind = "rpc_request"
             /\ Len(Sent(Main)[1].body) = 1
             /\ Sent(Main)[1].body[1].kind = "find_home"
             /\ Sent(Main)[1].body[1].args.axis = last.args.axis
             /\ Sent(Main)[1].body[1].args.speed = last.args.speed
             /\ last.out = <<>>
        ELSE /\ last.status = "returned"
             /\ Sent(Main) = <<>>
             /\ Len(last.out) = 1
             /\ last.out[1].text = "ERROR: Speed constrained to 1-100."
             /\ Len(published) = last.pub0
             /\ last_message = last.lm0

\* A find_home at the upper limit was published, and a later find_home just
\* above it was rejected.
C1_Witness ==
    /\ last.op = "find_home" /\ last.args.speed = 101
    /\ last.out # <<>>
    /\ Len(published) = 1
    /\ IsEnvelope(published[1])
    /\ published[1].body[1].kind = "find_home"
    /\ published[1].body[1].args.speed = 100

\* C2: every rpc_request envelope published by e_stop or unlock carries
\* priority 9000; every rpc_request envelope published by any other
\* operation carries priority 600.
C2_Priorities ==
    \A i \in 1..Len(Sent(Main)) :
        IsEnvelope(Sent(Main)[i]) =>
            IF last.op \in {"e_stop", "unlock"}
            THEN Sent(Main)[i].args.priority = 9000
            ELSE Sent(Main)[i].args.priority = 600

\* An emergency stop was published at 9000 after a command at 600.
C2_Witness ==
    /\ last.op = "e_stop"
    /\ Len(published) = 2
    /\ IsEnvelope(published[1]) /\ published[1].args.priority = 600
    /\ published[2].args.priority = 9000

\* C3: read_status always publishes its read_status envelope and never
\* raises; when its listen ends by the timeout it returns the value
\* last_message held before the call, and when a status message ended the
\* listen it returns that message's payload.
C3_ReadStatusStale ==
    last.op = "read_status" =>
        /\ last.status \in {"running", "returned"}
        /\ Len(Sent(Main)) = 1
        /\ IsEnvelope(Sent(Main)[1])
        /\ Len(Sent(Main)[1].body) = 1
        /\ Sent(Main)[1].body[1].kind = "read_status"
        /\ last.status = "returned" =>
              IF last.woke = 0
              THEN last.ret = last.lm0
              ELSE last.ret = last.heard

\* A read_status that timed out has returned the tree an earlier call stored.
C3_Witness ==
    /\ last.op = "read_status"
    /\ last.status = "returned"
    /\ last.listens = 1
    /\ last.woke = 0
    /\ last.lm0 # None
    /\ last.ret = last.lm0

\* C4: check_position returns true iff |actual_i - expected_i| <= tolerance
\* on all three axes, where actual is the position get_xyz returned.
C4_CheckPosition ==
    (last.op = "check_position" /\ last.status = "returned") =>
        LET expected == <<last.args.user_x, last.args.user_y, last.args.user_z>>
        IN  last.ret.v <=>
                \A i \in 1..3 :
                    Abs(last.position[i] - expected[i]) <= last.args.tolerance

\* A check that passed with one axis exactly at the tolerance.
C4_Witness ==
    /\ last.op = "check_position"
    /\ last.status = "returned"
    /\ last.ret.v
    /\ last.args.tolerance > 0
    /\ Abs(last.position[1] - last.args.user_x) = last.args.tolerance

IsWrite(call) == call.op \in {"edit_info", "add_info"}
WriteMethod(call) == IF call.op = "edit_info" THEN "PATCH" ELSE "POST"

\* C5: edit_info and add_info first issue the write (PATCH, POST) with the
\* payload, then a GET of the same resource, and return the body of that
\* GET; when the write fails no GET is issued; when the GET fails the error
\* propagates and the write stays.
C5_WriteThenReread ==
    (IsWrite(last) /\ Over(last)) =>
        LET asked == Asked(Main) IN
        /\ Len(asked) >= 1
        /\ asked[1].method = WriteMethod(last)
        /\ asked[1].endpoint = last.args.endpoint
        /\ asked[1].payload = last.args.new_data
        /\ IF last.status = "returned"
           THEN /\ Len(asked) = 2
                /\ asked[2].method = "GET"
                /\ asked[2].endpoint = asked[1].endpoint
                /\ asked[2].id = asked[1].id
                /\ server = Served(last.srv0, asked[1])
                /\ last.ret = Body(server, asked[2])
           ELSE IF last.ret.at = 1
           THEN Len(asked) = 1 /\ server = last.srv0
           ELSE /\ Len(asked) = 2
                /\ asked[2].method = "GET"
                /\ server = Served(last.srv0, asked[1])

\* An edit_info has returned the stored resource, which is more than the
\* payload it sent.
C5_Witness ==
    /\ last.op = "edit_info"
    /\ last.status = "returned"
    /\ "id" \in DOMAIN last.ret
    /\ last.ret # last.args.new_data
    /\ server # last.srv0

\* C6: move(x, y, z) publishes exactly one frame, an rpc_request whose body
\* is one move frame whose body is three axis_overwrite frames, for x, y, z
\* in this order, each with the argument as its numeric operand; it never
\* listens and returns nothing.
C6_Move ==
    last.op = "move" =>
        LET arg == <<last.args.x, last.args.y, last.args.z>>
            axis == <<"x", "y", "z">>
        IN  /\ last.status = "returned"
            /\ last.ret = None
            /\ last.listens = 0
            /\ Len(Sent(Main)) = 1
            /\ IsEnvelope(Sent(Main)[1])
            /\ Len(Sent(Main)[1].body) = 1
            /\ Sent(Main)[1].body[1].kind = "move"
            /\ Len(Sent(Main)[1].body[1].body) = 3
            /\ \A i \in 1..3 :
                  LET f == Sent(Main)[1].body[1].body[i] IN
                  /\ f.kind = "axis_overwrite"
                  /\ f.args.axis = axis[i]
                  /\ f.args.axis_operand.kind = "numeric"
                  /\ f.args.axis_operand.args.number = arg[i]

\* A move with different x and y has been published.
C6_Witness ==
    /\ last.op = "move"
    /\ last.args.x # last.args.y
    /\ Len(Sent(Main)) = 1

FireAndForget ==
    {"wait", "e_stop", "unlock", "reboot", "shutdown", "soil_height",
     "read_sensor", "move", "set_home", "axis_length", "find_home"}

ValidCall(call) ==
    call.op = "find_home" => (1 <= call.args.speed /\ call.args.speed <= 100)

\* C7 as stated: wait, e_stop, unlock, reboot, shutdown, soil_height,
\* read_sensor, move, set_home, axis_length and a valid find_home each
\* publish exactly one frame per call, never call listen and leave
\* last_message unchanged.
C7_AlwaysOneFrame ==
    (last.op \in FireAndForget /\ ValidCall(last) /\ Over(last)) =>
        /\ Len(Sent(Main)) = 1
        /\ last.listens = 0
        /\ last_message = last.lm0

\* C7 as amended: the same, except that read_sensor publishes its one frame
\* only when its get_info lookup of the peripheral succeeds and the record
\* it returns has a mode; otherwise read_sensor raises and publishes
\* nothing.  No other of these operations raises.
C7_FireAndForget ==
    (last.op \in FireAndForget /\ ValidCall(last) /\ Over(last)) =>
        /\ last.listens = 0
        /\ last_message = last.lm0
        /\ IF last.op = "read_sensor" /\ last.status = "raised"
           THEN Sent(Main) = <<>>
           ELSE last.status = "returned" /\ Len(Sent(Main)) = 1

\* A read_sensor whose peripheral record has no mode has raised after its
\* GET, with nothing published.
C7_Witness ==
    /\ last.op = "read_sensor"
    /\ last.status = "raised"
    /\ last.ret.t = "KeyError"
    /\ Len(Asked(Main)) = 1
    /\ Sent(Main) = <<>>

\* C8: the facade's token is None until a get_token call succeeds; from then
\* on the facade's token, the REST client's two slots and the broker
\* client's two slots all hold the token the most recent successful call
\* returned; a failed credential exchange changes no slot.
C8_TokenInjected ==
    /\ token["token"] = granted
    /\ granted # None => \A s \in Slots : token[s] = granted
    /\ (last.op = "get_token" /\ last.status = "returned") =>
          (granted = last.ret /\ last.ret \in Tokens)
    /\ (last.op = "get_token" /\ last.status = "raised") =>
          token = last.tok0

\* A second successful get_token has replaced the first one's token in the
\* broker client's slots.
C8_Witness ==
    /\ last.op = "get_token"
    /\ last.status = "returned"
    /\ last.tok0["token"] # None
    /\ last.tok0["token"] # last.ret
    /\ token["broker.broker_connect.token"] = last.ret
    /\ token["broker.api.api_connect.token"] = last.ret

\* C9: when read_status calls run strictly one after another and every
\* response arrives in time, each call returns the response to its own
\* request.  (With overlapping calls a caller can return another request's
\* response: C9_Witness.)
C9_SequentialReads ==
    \A c \in Callers :
        (/\ cur[c].op = "read_status"
         /\ cur[c].status = "returned"
         /\ ~everOverlap
         /\ ~everTimeout) =>
            /\ cur[c].reply_to = cur[c].req
            /\ cur[c].ret = cur[c].heard

\* Two overlapping calls, no timeout: a caller's listen was ended by the
\* response to its own request, a second response overwrote last_message
\* before the caller read it, and the caller returned that other payload.
C9_Witness ==
    \E c \in Callers :
        /\ cur[c].op = "read_status"
        /\ cur[c].status = "returned"
        /\ everOverlap
        /\ ~everTimeout
        /\ cur[c].woke = cur[c].req
        /\ cur[c].reply_to # cur[c].req
        /\ cur[c].ret # cur[c].heard

Vocabulary ==
    {"wait", "emergency_lock", "emergency_unlock", "reboot", "power_off",
     "execute_script", "read_status", "read_pin", "move", "axis_overwrite",
     "zero", "find_home", "calibrate", "rpc_request"}

\* The frames that are values of a frame's args.
ArgFrames(f) ==
    {f.args[k] : k \in DOMAIN f.args \cap {"axis_operand", "pin_number"}}

BodyOf(f) == IF "body" \in DOMAIN f THEN {f.body[i] : i \in 1..Len(f.body)} ELSE {}

RECURSIVE Frames(_)
\* A frame and every frame nested in it, through body or through args.
Frames(f) == {f} \cup UNION {Frames(g) : g \in BodyOf(f) \cup ArgFrames(f)}

RECURSIVE Commands(_)
\* A frame and every frame nested in it through body alone.
Commands(f) == {f} \cup UNION {Commands(g) : g \in BodyOf(f)}

PublishedFrames == UNION {Frames(published[i]) : i \in 1..Len(published)}
PublishedCommands == UNION {Commands(published[i]) : i \in 1..Len(published)}

ArgsByKind ==
    \A f \in PublishedFrames, g \in PublishedFrames :
        f.kind = g.kind => DOMAIN f.args = DOMAIN g.args

\* C10 as stated: every frame published, at any nesting level, has a kind of
\* the command vocabulary, and the keys of its args are determined by its
\* kind.
C10_OnlyVocabulary ==
    /\ \A f \in PublishedFrames : f.kind \in Vocabulary
    /\ ArgsByKind

\* C10 as amended: the envelope and the frames nested through body have a
\* kind of the command vocabulary; the frames that are values of args have
\* kind numeric or named_pin; the keys of a frame's args are determined by
\* its kind.
C10_Vocabulary ==
    /\ \A f \in PublishedCommands : f.kind \in Vocabulary
    /\ \A f \in PublishedFrames \ PublishedCommands :
          f.kind \in {"numeric", "named_pin"}
    /\ ArgsByKind

\* A move and a read_sensor have been published: frames of kind numeric and
\* named_pin are on the wire.
C10_Witness ==
    /\ \E f \in PublishedFrames : f.kind = "numeric"
    /\ \E f \in PublishedFrames : f.kind = "named_pin"

=============================================================================
